---------------------------- MODULE Spec2Model ----------------------------
(* Model of the Pentago rules engine of Pentago.py: class Pentago (the   *)
(* game), class GameBoard (the 6x6 grid), class SubBoard (a 3x3 window   *)
(* of the grid) and class GameLog (the move log).                        *)
(*                                                                       *)
(* Python values are represented as follows.  None is the string         *)
(* "None".  The bools True and False, where they are stored in a field   *)
(* that also holds strings (_game_state, the value make_move returns),   *)
(* are the strings "True" and "False" (PyBool); no string of the program *)
(* spells either.  A raised exception is the name of its class in the    *)
(* variable result.  A position string is the tuple of its characters.   *)
EXTENDS Integers, Sequences, FiniteSets, TLC

VARIABLES
    board,           \* GameBoard._game_board: board[row][column]
    current_player,  \* Pentago._current_player
    opponent,        \* Pentago._opponent
    game_state,      \* Pentago._game_state
    game_log,        \* Pentago._game_log: GameLog._game_log
    call,            \* the last call: the method and its arguments
    result           \* what the last call returned or raised

vars == <<board, current_player, opponent, game_state, game_log, call, result>>

-----------------------------------------------------------------------------
(* Bounds of the exploration *)

\* the caller stops placing once the board holds this many marbles (Spec)
MaxMarbles == 2

\* the number of first cells of the fill order whose colour the caller
\* chooses freely (SpecGame)
FreeCells == 13

\* the caller of the GameBoard methods stops placing once the board holds
\* this many marbles (SpecBoard)
MaxBoardMarbles == 2

\* the caller of the GameLog methods stops logging once the log holds this
\* many entries (SpecLog)
MaxLog == 2

-----------------------------------------------------------------------------
(* Python helpers *)

\* a Python bool stored where strings are stored
PyBool(b) == IF b THEN "True" ELSE "False"

\* str.upper() on the colour names the callers pass
upper(s) ==
    CASE s = "white" -> "WHITE"
      [] s = "White" -> "WHITE"
      [] s = "black" -> "BLACK"
      [] OTHER -> s

\* str.lower() on one character
lower(ch) ==
    CASE ch = "A" -> "a"
      [] ch = "B" -> "b"
      [] ch = "C" -> "c"
      [] ch = "D" -> "d"
      [] ch = "E" -> "e"
      [] ch = "F" -> "f"
      [] ch = "G" -> "g"
      [] OTHER -> ch

\* the decimal digits int() accepts, with their values
Digits == {"0", "1", "2", "3", "4", "5", "6", "7", "8", "9"}

int(ch) ==
    CASE ch = "0" -> 0
      [] ch = "1" -> 1
      [] ch = "2" -> 2
      [] ch = "3" -> 3
      [] ch = "4" -> 4
      [] ch = "5" -> 5
      [] ch = "6" -> 6
      [] ch = "7" -> 7
      [] ch = "8" -> 8
      [] ch = "9" -> 9

-----------------------------------------------------------------------------
(* Pentago.convert_position *)

letter_conversion ==
    [ch \in {"a", "b", "c", "d", "e", "f"} |->
        CASE ch = "a" -> 0
          [] ch = "b" -> 1
          [] ch = "c" -> 2
          [] ch = "d" -> 3
          [] ch = "e" -> 4
          [] ch = "f" -> 5]

\* the exception convert_position raises on this position, "None" if none:
\* position[0] and position[1] raise IndexError on a short string, the
\* dictionary lookup KeyError, int() ValueError
convert_position_raises(position) ==
    IF Len(position) < 1 THEN "IndexError"
    ELSE IF lower(position[1]) \notin DOMAIN letter_conversion THEN "KeyError"
    ELSE IF Len(position) < 2 THEN "IndexError"
    ELSE IF position[2] \notin Digits THEN "ValueError"
    ELSE "None"

\* (row_index, column_index); Python indexes the string from 0, the tuple
\* of characters is indexed from 1
convert_position(position) ==
    <<letter_conversion[lower(position[1])], int(position[2])>>

-----------------------------------------------------------------------------
(* GameBoard and SubBoard *)

\* a board list whose first cell holds a marble
EmptyBoard_first_marked ==
    [row \in 0..5 |-> [column \in 0..5 |->
        IF row = 0 /\ column = 0 THEN "W" ELSE "."]]

\* GameBoard.__init__: the _game_board list
EmptyBoard == [row \in 0..5 |-> [column \in 0..5 |-> "."]]

\* the anchors with those of sub-boards 1 and 4 exchanged
sub_board_map_1_4_exchanged ==
    [n \in 1..4 |->
        CASE n = 1 -> <<3, 3>>
          [] n = 2 -> <<0, 3>>
          [] n = 3 -> <<3, 0>>
          [] n = 4 -> <<0, 0>>]

\* GameBoard.__init__: the anchors of the four SubBoards
sub_board_map ==
    [n \in 1..4 |->
        CASE n = 1 -> <<0, 0>>
          [] n = 2 -> <<0, 3>>
          [] n = 3 -> <<3, 0>>
          [] n = 4 -> <<3, 3>>]

\* update_game_board that takes the position as (column, row)
update_game_board_transposed(b, marble_color, position) ==
    [b EXCEPT ![position[2]][position[1]] = marble_color]

\* GameBoard.update_game_board
update_game_board(b, marble_color, position) ==
    [b EXCEPT ![position[1]][position[2]] = marble_color]

\* SubBoard.get_sub_board: a fresh 3x3 copy of the window
get_sub_board(b, n) ==
    [row \in 0..2 |-> [col \in 0..2 |->
        b[sub_board_map[n][1] + row][sub_board_map[n][2] + col]]]

\* a Python list of three lists of three as a grid indexed from 0
grid3(r0, r1, r2) ==
    [row \in 0..2 |-> [col \in 0..2 |->
        (CASE row = 0 -> r0 [] row = 1 -> r1 [] row = 2 -> r2)[col + 1]]]

\* rotated_board with the rows of the clockwise list in reverse order
rotated_board_rows_swapped(sub_board, rotation) ==
    IF rotation = "C"
    THEN grid3(<<sub_board[2][2], sub_board[1][2], sub_board[0][2]>>,
               <<sub_board[2][1], sub_board[1][1], sub_board[0][1]>>,
               <<sub_board[2][0], sub_board[1][0], sub_board[0][0]>>)
    ELSE grid3(<<sub_board[0][2], sub_board[1][2], sub_board[2][2]>>,
               <<sub_board[0][1], sub_board[1][1], sub_board[2][1]>>,
               <<sub_board[0][0], sub_board[1][0], sub_board[2][0]>>)

\* the rotated_board list of SubBoard.rotate
rotated_board(sub_board, rotation) ==
    IF rotation = "C"
    THEN grid3(<<sub_board[2][0], sub_board[1][0], sub_board[0][0]>>,
               <<sub_board[2][1], sub_board[1][1], sub_board[0][1]>>,
               <<sub_board[2][2], sub_board[1][2], sub_board[0][2]>>)
    ELSE grid3(<<sub_board[0][2], sub_board[1][2], sub_board[2][2]>>,
               <<sub_board[0][1], sub_board[1][1], sub_board[2][1]>>,
               <<sub_board[0][0], sub_board[1][0], sub_board[2][0]>>)

\* writes a 3x3 grid into window n of the board
write_window(b, n, grid) ==
    [row \in 0..5 |-> [column \in 0..5 |->
        IF /\ row - sub_board_map[n][1] \in 0..2
           /\ column - sub_board_map[n][2] \in 0..2
        THEN grid[row - sub_board_map[n][1]][column - sub_board_map[n][2]]
        ELSE b[row][column]]]

\* rotate that turns clockwise whatever the direction
rotate_always_clockwise(b, n, rotation) ==
    write_window(b, n, rotated_board(get_sub_board(b, n), "C"))

\* SubBoard.rotate, for rotation "C" or "A"
rotate(b, n, rotation) ==
    write_window(b, n, rotated_board(get_sub_board(b, n), rotation))

RECURSIVE write_sub_boards(_, _)
\* the loop of update_board_from_sub_boards over sub-boards n..4
write_sub_boards(b, n) ==
    IF n > 4 THEN b
    ELSE write_sub_boards(write_window(b, n, get_sub_board(b, n)), n + 1)

\* GameBoard.update_board_from_sub_boards
update_board_from_sub_boards(b) == write_sub_boards(b, 1)

\* GameBoard.rotate_sub_board, for sub_board in 1..4 and rotation "C" or "A"
rotate_sub_board(b, sub_board, rotation) ==
    update_board_from_sub_boards(rotate(b, sub_board, rotation))

\* GameBoard.is_full
is_full(b) == \A row \in 0..5 : \A column \in 0..5 : b[row][column] # "."

\* a Python list of six read at index i: a negative index counts from the
\* end of the list
item(list, i) == IF i < 0 THEN list[i + 6] ELSE list[i]

\* check_five_in_a_row of GameBoard.check_end_conditions
check_five_in_a_row(b, color) ==
    \/ \E row \in 0..5 : \E column \in 0..1 :
          \A i \in 0..4 : b[row][column + i] = color
    \/ \E column \in 0..5 : \E row \in 0..1 :
          \A i \in 0..4 : b[row + i][column] = color
    \/ \E row \in 0..1 : \E column \in 0..1 :
          \A i \in 0..4 : b[row + i][column + i] = color
    \/ \E row \in 0..1 : \E column \in 2..5 :
          \A i \in 0..4 : item(b[row + i], column - i) = color

\* GameBoard.check_end_conditions: a bool, True when the colour has a line
check_end_conditions(b, current_player_color) ==
    check_five_in_a_row(b, current_player_color)

-----------------------------------------------------------------------------
(* Pentago *)

Colors == {"W", "B"}

GameStates == {"UNFINISHED", "WHITE_WON", "BLACK_WON", "DRAW"}

\* convert_color of make_move
convert_color(c) == IF c = "W" THEN "WHITE" ELSE "BLACK"

\* Pentago.__init__
Init ==
    /\ board = EmptyBoard
    /\ current_player = "None"
    /\ opponent = "None"
    /\ game_state = "UNFINISHED"
    /\ game_log = <<>>
    /\ call = [op |-> "__init__", args |-> <<>>]
    /\ result = "None"

\* is_valid_move without the check of the game state
is_valid_move_unfinished_only(position, player) ==
    IF player = opponent THEN "not this player's turn"
    ELSE IF position[2] \notin 0..5 THEN "IndexError"
    ELSE IF board[position[1]][position[2]] # "." THEN "position is not empty"
    ELSE "True"

\* Pentago.is_valid_move: "True", a message, or the IndexError of the
\* board lookup when the column is past the board
is_valid_move(position, player) ==
    IF game_state # "UNFINISHED" THEN "game is finished"
    ELSE IF player = opponent THEN "not this player's turn"
    ELSE IF position[2] \notin 0..5 THEN "IndexError"
    ELSE IF board[position[1]][position[2]] # "." THEN "position is not empty"
    ELSE "True"

\* the entry GameLog.log_move appends
log_entry(marble_color, position, sub_board, rotation) ==
    [marble_color |-> marble_color, position |-> position,
     sub_board |-> sub_board,
     rotation_converted |-> IF rotation = "C" THEN "Clockwise" ELSE "A"]

\* Pentago.switch_player as a function of the current player: the new
\* <<current player, opponent>>
switched(cp, opp) ==
    IF cp = "B" THEN <<"W", "B">>
    ELSE IF cp = "W" THEN <<"B", "W">>
    ELSE <<cp, opp>>

\* make_move from the rotation on (lines 112-156), the marble placed
after_placement(marble_color, position, sub_board, rotation, placed) ==
    IF sub_board \notin DOMAIN sub_board_map
    THEN \* self._sub_boards[sub_board] raises
         /\ result' = "KeyError"
         /\ board' = placed
         /\ current_player' = marble_color
         /\ UNCHANGED <<opponent, game_state, game_log>>
    ELSE IF rotation \notin {"C", "A"}
    THEN \* rotated_board is unbound in SubBoard.rotate
         /\ result' = "UnboundLocalError"
         /\ board' = placed
         /\ current_player' = marble_color
         /\ UNCHANGED <<opponent, game_state, game_log>>
    ELSE
    LET rotated == update_board_from_sub_boards(
                       rotate_sub_board(placed, sub_board, rotation))
        current_player_win == check_end_conditions(rotated, marble_color)
        opponent_color == IF marble_color = "B" THEN "W" ELSE "B"
        opponent_win == check_end_conditions(rotated, opponent_color)
        current_player_color == convert_color(marble_color)
        current_opponent_color == convert_color(opponent_color)
        ended == current_player_win \/ opponent_win \/ is_full(rotated)
    IN  /\ board' = rotated
        /\ result' = "True"
        /\ game_state' =
             IF current_player_win
             THEN IF opponent_win THEN "DRAW"
                  ELSE current_player_color \o "_WON"
             ELSE IF opponent_win THEN current_opponent_color \o "_WON"
             ELSE IF is_full(rotated) THEN "DRAW"
             ELSE game_state
        /\ game_log' =
             IF ended THEN game_log
             ELSE Append(game_log,
                         log_entry(marble_color, position, sub_board, rotation))
        /\ current_player' =
             IF ended THEN marble_color
             ELSE switched(marble_color, opponent_color)[1]
        /\ opponent' =
             IF ended THEN opponent_color
             ELSE switched(marble_color, opponent_color)[2]

\* Pentago.make_move
make_move(color, position_string, sub_board, rotation) ==
    /\ call' = [op |-> "make_move",
                args |-> <<color, position_string, sub_board, rotation>>]
    /\ IF convert_position_raises(position_string) # "None"
       THEN /\ result' = convert_position_raises(position_string)
            /\ UNCHANGED <<board, current_player, opponent, game_state, game_log>>
       ELSE
       LET position == convert_position(position_string)
           marble_color == IF upper(color) = "WHITE" THEN "W" ELSE "B"
           validation_result == is_valid_move(position, marble_color)
           placed == update_game_board(board, marble_color, position)
           end_state == PyBool(check_end_conditions(placed, marble_color))
       IN  IF validation_result # "True"
           THEN /\ result' = validation_result
                /\ current_player' = marble_color
                /\ UNCHANGED <<board, opponent, game_state, game_log>>
           ELSE IF end_state # "UNFINISHED"
           THEN /\ result' = "True"
                /\ board' = placed
                /\ current_player' = marble_color
                /\ game_state' = end_state
                /\ UNCHANGED <<opponent, game_log>>
           ELSE after_placement(marble_color, position, sub_board, rotation,
                                placed)

\* Pentago.set_current_player
set_current_player(marble_color) ==
    /\ call' = [op |-> "set_current_player", args |-> <<marble_color>>]
    /\ current_player' = marble_color
    /\ result' = "None"
    /\ UNCHANGED <<board, opponent, game_state, game_log>>

\* Pentago.set_opponent
set_opponent(marble_color) ==
    /\ call' = [op |-> "set_opponent", args |-> <<marble_color>>]
    /\ opponent' = marble_color
    /\ result' = "None"
    /\ UNCHANGED <<board, current_player, game_state, game_log>>

\* Pentago.set_game_state
set_game_state(new_state) ==
    /\ call' = [op |-> "set_game_state", args |-> <<new_state>>]
    /\ game_state' = new_state
    /\ result' = "None"
    /\ UNCHANGED <<board, current_player, opponent, game_log>>

\* Pentago.switch_player
switch_player ==
    /\ call' = [op |-> "switch_player", args |-> <<>>]
    /\ current_player' = switched(current_player, opponent)[1]
    /\ opponent' = switched(current_player, opponent)[2]
    /\ result' = "None"
    /\ UNCHANGED <<board, game_state, game_log>>

-----------------------------------------------------------------------------
(* The callers *)

\* the number of marbles on a board
Marbles(b) ==
    Cardinality({cell \in (0..5) \X (0..5) : b[cell[1]][cell[2]] # "."})

\* the arguments the callers of make_move pass
InColors == {"WHITE", "black"}

InPositions ==
    {<<"a", "0">>, <<"B", "1">>, <<"f", "5">>, <<"g", "0">>, <<"a", "6">>}

InSubBoards == {1, 5}

InRotations == {"C", "A", "X"}

\* a caller of the public methods of Pentago
Next ==
    \/ \E color \in InColors, position \in InPositions,
          sub_board \in InSubBoards, rotation \in InRotations :
          /\ make_move(color, position, sub_board, rotation)
          /\ Marbles(board') <= MaxMarbles
    \/ \E marble_color \in Colors : set_current_player(marble_color)
    \/ \E marble_color \in Colors : set_opponent(marble_color)
    \/ \E new_state \in GameStates : set_game_state(new_state)
    \/ switch_player

Spec == Init /\ [][Next]_vars

\* A caller that plays a whole game: it fills the cells in row-major
\* order, a0 a1 ... f5, and puts the game state back to 'UNFINISHED'
\* after each move.  It chooses the colour of the first FreeCells
\* marbles freely; it goes on from there only when every marble lies on
\* the pattern that alternates the colours along the rows, the rows in
\* pairs, and follows the pattern to the last cell.
RowLetters == <<"a", "b", "c", "d", "e", "f">>

DigitChars == <<"0", "1", "2", "3", "4", "5">>

fill_position(k) == <<RowLetters[(k \div 6) + 1], DigitChars[(k % 6) + 1]>>

fill_color(k) ==
    IF (((k \div 6) \div 2) + (k % 6)) % 2 = 0 THEN "WHITE" ELSE "black"

on_pattern(b) ==
    \A k \in 0..35 :
        b[k \div 6][k % 6] \in {".", IF fill_color(k) = "WHITE" THEN "W" ELSE "B"}

game_move(color, sub_board, rotation) ==
    /\ game_state = "UNFINISHED"
    /\ Marbles(board) < 36
    /\ Marbles(board) >= FreeCells =>
           color = fill_color(Marbles(board)) /\ on_pattern(board)
    /\ make_move(color, fill_position(Marbles(board)), sub_board, rotation)

continue_game ==
    /\ game_state # "UNFINISHED"
    /\ set_game_state("UNFINISHED")

NextGame ==
    \/ \E color \in InColors, sub_board \in 1..4, rotation \in {"C", "A"} :
          game_move(color, sub_board, rotation)
    \/ continue_game

SpecGame == Init /\ [][NextGame]_vars

\* A caller of the methods of a GameBoard: it places marbles with
\* update_game_board and turns the sub-boards with rotate_sub_board.
PlaceCells == {<<0, 1>>, <<3, 5>>}

\* GameBoard.update_game_board, called on the board
GameBoard_update_game_board(marble_color, position) ==
    /\ call' = [op |-> "update_game_board", args |-> <<marble_color, position>>]
    /\ board' = update_game_board(board, marble_color, position)
    /\ result' = "None"
    /\ UNCHANGED <<current_player, opponent, game_state, game_log>>

\* GameBoard.rotate_sub_board, called on the board: the lookup of an
\* unknown sub-board raises KeyError, an unknown direction leaves
\* rotated_board unbound in SubBoard.rotate
GameBoard_rotate_sub_board(sub_board, rotation) ==
    /\ call' = [op |-> "rotate_sub_board", args |-> <<sub_board, rotation>>]
    /\ IF sub_board \notin DOMAIN sub_board_map
       THEN result' = "KeyError" /\ board' = board
       ELSE IF rotation \notin {"C", "A"}
       THEN result' = "UnboundLocalError" /\ board' = board
       ELSE result' = "None"
            /\ board' = rotate_sub_board(board, sub_board, rotation)
    /\ UNCHANGED <<current_player, opponent, game_state, game_log>>

NextBoard ==
    \/ \E marble_color \in Colors, position \in PlaceCells :
          /\ GameBoard_update_game_board(marble_color, position)
          /\ Marbles(board') <= MaxBoardMarbles
    \/ \E sub_board \in 1..5, rotation \in InRotations :
          GameBoard_rotate_sub_board(sub_board, rotation)

SpecBoard == Init /\ [][NextBoard]_vars

\* A caller that places marbles on the cells of two lines and asks
\* check_end_conditions for each colour: the main diagonal from a0, and the
\* cells c0-b1-a2, d5, e4 that the scan of the other diagonals reads when it
\* starts at a2.
LineCells ==
    {<<0, 0>>, <<1, 1>>, <<2, 2>>, <<3, 3>>, <<4, 4>>,
     <<0, 2>>, <<2, 0>>, <<3, 5>>}

\* GameBoard.check_end_conditions, called on the board
GameBoard_check_end_conditions(current_player_color) ==
    /\ call' = [op |-> "check_end_conditions", args |-> <<current_player_color>>]
    /\ result' = PyBool(check_end_conditions(board, current_player_color))
    /\ UNCHANGED <<board, current_player, opponent, game_state, game_log>>

NextLines ==
    \/ \E marble_color \in Colors, position \in LineCells :
          GameBoard_update_game_board(marble_color, position)
    \/ \E current_player_color \in Colors :
          GameBoard_check_end_conditions(current_player_color)

SpecLines == Init /\ [][NextLines]_vars

\* A caller that plays moves on a Pentago, resumes the game after each of
\* them, and writes to the GameLog of the game with log_move and
\* log_game_state.
LogPositions == {<<"a", "0">>, <<"B", "1">>}

\* the entry GameLog.log_game_state appends
game_state_entry(logged_state) == [game_state |-> logged_state]

\* GameLog.log_move, called on the log of the game
GameLog_log_move(marble_color, position, sub_board, rotation) ==
    /\ call' = [op |-> "log_move",
                args |-> <<marble_color, position, sub_board, rotation>>]
    /\ game_log' = Append(game_log,
                          log_entry(marble_color, position, sub_board, rotation))
    /\ result' = "None"
    /\ UNCHANGED <<board, current_player, opponent, game_state>>

\* GameLog.log_game_state, called on the log of the game
GameLog_log_game_state(logged_state) ==
    /\ call' = [op |-> "log_game_state", args |-> <<logged_state>>]
    /\ game_log' = Append(game_log, game_state_entry(logged_state))
    /\ result' = "None"
    /\ UNCHANGED <<board, current_player, opponent, game_state>>

NextLog ==
    \/ \E color \in InColors, position_string \in LogPositions,
          rotation \in {"C", "A"} :
          /\ make_move(color, position_string, 1, rotation)
          /\ Marbles(board') <= MaxMarbles
          /\ Len(game_log') <= MaxLog
    \/ continue_game
    \/ \E marble_color \in Colors, rotation \in {"C", "A"} :
          /\ GameLog_log_move(marble_color, <<0, 0>>, 1, rotation)
          /\ Len(game_log') <= MaxLog
    \/ \E logged_state \in {"UNFINISHED", "WHITE_WON"} :
          /\ GameLog_log_game_state(logged_state)
          /\ Len(game_log') <= MaxLog

SpecLog == Init /\ [][NextLog]_vars

-----------------------------------------------------------------------------
(* The claims.  A step of make_move is a step with call' a make_move     *)
(* call; the state before the call is the unprimed one.                  *)

\* the arguments of a make_move call
color_of(c) == c.args[1]
position_of(c) == c.args[2]
sub_board_of(c) == c.args[3]
rotation_of(c) == c.args[4]

\* the marble make_move places for the colour name of the call
marble_of(c) == IF upper(color_of(c)) = "WHITE" THEN "W" ELSE "B"

\* the other marble
other(marble) == IF marble = "B" THEN "W" ELSE "B"

\* the call names a cell of the board
on_board(c) ==
    /\ c.op = "make_move"
    /\ convert_position_raises(position_of(c)) = "None"
    /\ convert_position(position_of(c))[2] \in 0..5

\* the cell the call names holds this value in the current state
cell_is(c, value) ==
    board[convert_position(position_of(c))[1]]
         [convert_position(position_of(c))[2]] = value

\* the call is a make_move that passes validation in the current state,
\* with a quadrant and a direction the program knows
valid_move(c) ==
    /\ on_board(c)
    /\ is_valid_move(convert_position(position_of(c)), marble_of(c)) = "True"
    /\ sub_board_of(c) \in 1..4
    /\ rotation_of(c) \in {"C", "A"}

\* the board right after the placement of the call
placed_board(c) ==
    update_game_board(board, marble_of(c), convert_position(position_of(c)))

\* the board the call is to leave when the placement does not win: the
\* named quadrant of the board after placement rotated as named
turned_board(c) ==
    rotate_sub_board(placed_board(c), sub_board_of(c), rotation_of(c))

\* neither colour has a five-in-a-row on the board
no_line(b) == \A c \in Colors : ~check_five_in_a_row(b, c)

\* C1: a make_move call that passes validation, after which neither
\* colour has five in a row and the board is not full, returns True and
\* leaves the game state 'UNFINISHED'.
C1_ValidMoveStaysUnfinished ==
    [][(/\ valid_move(call')
        /\ ~check_five_in_a_row(board', "W")
        /\ ~check_five_in_a_row(board', "B")
        /\ ~is_full(board'))
       => (result' = "True" /\ game_state' = "UNFINISHED")]_vars

\* C2: when the mover's placement alone completes a five-in-a-row of the
\* mover's colour, make_move sets the game state to WHITE_WON / BLACK_WON
\* for the mover and returns True without rotating a quadrant.
C2_PlacementWinSetsWon ==
    [][(/\ valid_move(call')
        /\ no_line(board)
        /\ check_five_in_a_row(placed_board(call'), marble_of(call')))
       => (/\ result' = "True"
           /\ game_state' = convert_color(marble_of(call')) \o "_WON"
           /\ board' = placed_board(call'))]_vars

\* C3: when a validated placement does not complete a five-in-a-row for
\* the mover, the window of the named quadrant after the call is the
\* rotation, in the named direction, of its contents after placement.
C3_NonWinningMoveRotates ==
    [][(/\ valid_move(call')
        /\ ~check_five_in_a_row(placed_board(call'), marble_of(call')))
       => get_sub_board(board', sub_board_of(call')) =
              rotated_board(
                  get_sub_board(placed_board(call'), sub_board_of(call')),
                  rotation_of(call'))]_vars

\* C4: when the placement does not win and after the rotation both
\* colours have a five-in-a-row, make_move sets the game state to DRAW.
C4_BothLinesAfterRotationDraw ==
    [][(/\ valid_move(call')
        /\ no_line(board)
        /\ ~check_five_in_a_row(placed_board(call'), marble_of(call'))
        /\ check_five_in_a_row(turned_board(call'), "W")
        /\ check_five_in_a_row(turned_board(call'), "B"))
       => game_state' = "DRAW"]_vars

\* C5: when the placement does not win and after the rotation exactly one
\* colour has a five-in-a-row, make_move sets the game state to that
\* colour's WON state, the mover's or the opponent's.
C5_OneLineAfterRotationWins ==
    [][\A winner \in Colors :
        (/\ valid_move(call')
         /\ no_line(board)
         /\ ~check_five_in_a_row(placed_board(call'), marble_of(call'))
         /\ check_five_in_a_row(turned_board(call'), winner)
         /\ ~check_five_in_a_row(turned_board(call'), other(winner)))
        => game_state' = convert_color(winner) \o "_WON"]_vars

\* C6: when a move leaves neither colour with a five-in-a-row and the
\* board has no empty cell, make_move sets the game state to DRAW.
C6_FullBoardDraw ==
    [][(/\ valid_move(call')
        /\ no_line(board)
        /\ is_full(placed_board(call'))
        /\ \A c \in Colors :
              /\ ~check_five_in_a_row(placed_board(call'), c)
              /\ ~check_five_in_a_row(turned_board(call'), c))
       => game_state' = "DRAW"]_vars

\* C7: once the game state is different from 'UNFINISHED', no make_move
\* call changes it.
C7_TerminalAbsorbing ==
    [][(call'.op = "make_move" /\ game_state # "UNFINISHED")
       => game_state' = game_state]_vars

\* a make_move call was made in a finished game and was turned down
C7_Witness ==
    /\ call.op = "make_move"
    /\ result = "game is finished"
    /\ game_state # "UNFINISHED"

\* C8: once the game state is different from 'UNFINISHED', every make_move
\* call fails with "game is finished" and leaves board, game state,
\* current player, opponent and log unchanged.
C8_FinishedGameRejectsUnchanged ==
    [][(on_board(call') /\ game_state # "UNFINISHED")
       => (/\ result' = "game is finished"
           /\ UNCHANGED <<board, game_state, current_player, opponent,
                          game_log>>)]_vars

\* C9: a make_move call on a cell that is not empty fails with "position is
\* not empty", places no marble and leaves the game 'UNFINISHED': White
\* plays a cell of a board without a line, the board is not full, and
\* Black then tries the same cell.
C9_OccupiedCellRejected ==
    [][(/\ call.op = "make_move" /\ result = "True"
        /\ no_line(board) /\ ~is_full(board)
        /\ on_board(call')
        /\ convert_position(position_of(call'))
               = convert_position(position_of(call))
        /\ marble_of(call) = "W" /\ marble_of(call') = "B")
       => (/\ result' = "position is not empty"
           /\ board' = board
           /\ game_state' = "UNFINISHED")]_vars

\* C10: once a current player is set, a marble is on the board and the
\* game is 'UNFINISHED', a make_move call by the other colour, here on an
\* empty cell, fails with "not this player's turn" and places no marble.
C10_WrongTurnRejected ==
    [][(/\ on_board(call')
        /\ game_state = "UNFINISHED"
        /\ current_player \in Colors
        /\ Marbles(board) > 0
        /\ cell_is(call', ".")
        /\ marble_of(call') # current_player)
       => (result' = "not this player's turn" /\ board' = board)]_vars

\* C11: two successive accepted make_move calls that both leave the board
\* without a line and not full are by different colours, and after each
\* such move the current player is the colour that did not just move.
C11_TurnsAlternate ==
    [][(/\ valid_move(call')
        /\ result' = "True"
        /\ no_line(board') /\ ~is_full(board'))
       => (/\ current_player' = other(marble_of(call'))
           /\ (call.op = "make_move" /\ result = "True" /\ no_line(board))
                  => marble_of(call) # marble_of(call'))]_vars

\* C12: in every state after the first accepted make_move, current player
\* and opponent are both set and are the two different colours.
C12_PlayersComplementary ==
    Marbles(board) > 0
        => (/\ current_player \in Colors
            /\ opponent \in Colors
            /\ current_player # opponent)

\* C13: in every reachable state the game state is one of 'UNFINISHED',
\* 'WHITE_WON', 'BLACK_WON', 'DRAW'.
C13_GameStateIsAStatus == game_state \in GameStates

\* C14: a newly constructed game is 'UNFINISHED', has no current player,
\* 36 empty cells, so four empty sub-boards, and an empty log.
C14_NewGame ==
    call.op = "__init__"
        => (/\ game_state = "UNFINISHED"
            /\ current_player = "None"
            /\ \A row \in 0..5 : \A column \in 0..5 : board[row][column] = "."
            /\ \A n \in 1..4 : \A row \in 0..2 : \A col \in 0..2 :
                   get_sub_board(board, n)[row][col] = "."
            /\ game_log = <<>>)

\* the game right after its construction
C14_Witness == call.op = "__init__" /\ result = "None" /\ Marbles(board) = 0

\* the number of cells of a 3x3 grid that hold a value
count(grid, value) ==
    Cardinality({cell \in (0..2) \X (0..2) : grid[cell[1]][cell[2]] = value})

\* C15: rotate('C') moves the value of cell (r,c) of the window to cell
\* (c,2-r), rotate('A') moves it to cell (2-c,r), the inverse permutation,
\* so each value occurs in the window as often as before;
\* [[1,2,3],[4,5,6],[7,8,9]] becomes [[7,4,1],[8,5,2],[9,6,3]] clockwise.
C15_RotatePermutes ==
    [][(/\ call'.op = "rotate_sub_board"
        /\ call'.args[1] \in 1..4
        /\ call'.args[2] \in {"C", "A"})
       => LET old == get_sub_board(board, call'.args[1])
              new == get_sub_board(board', call'.args[1])
          IN  /\ \A r \in 0..2 : \A c \in 0..2 :
                    IF call'.args[2] = "C"
                    THEN new[c][2 - r] = old[r][c]
                    ELSE new[2 - c][r] = old[r][c]
              /\ \A value \in {".", "W", "B"} :
                    count(new, value) = count(old, value)
              /\ rotated_board(grid3(<<1, 2, 3>>, <<4, 5, 6>>, <<7, 8, 9>>), "C")
                    = grid3(<<7, 4, 1>>, <<8, 5, 2>>, <<9, 6, 3>>)]_vars

\* a rotation has moved a marble inside its window
C15_Witness ==
    /\ call.op = "rotate_sub_board"
    /\ result = "None"
    /\ \E rotation \in {"C", "A"} :
          rotate(board, call.args[1], rotation) # board

\* C16: for every board and every quadrant 1..4, turning the quadrant
\* clockwise and then counter-clockwise, or counter-clockwise and then
\* clockwise, restores the whole board.
C16_RotationRoundTrip ==
    \A n \in 1..4 :
        /\ rotate_sub_board(rotate_sub_board(board, n, "C"), n, "A") = board
        /\ rotate_sub_board(rotate_sub_board(board, n, "A"), n, "C") = board

\* a board with two marbles, one of them turned by the last call, on which
\* the rotation of a quadrant is not the identity
C16_Witness ==
    /\ call.op = "rotate_sub_board"
    /\ Marbles(board) = 2
    /\ \E n \in 1..4 : rotate_sub_board(board, n, "C") # board

\* C17: update_game_board sets the cell at the position to the marble and
\* leaves the 35 other cells unchanged.
C17_PlacementFrame ==
    [][call'.op = "update_game_board"
       => \A row \in 0..5 : \A column \in 0..5 :
             board'[row][column] =
                 IF <<row, column>> = call'.args[2]
                 THEN call'.args[1] ELSE board[row][column]]_vars

\* a marble was placed on a board that holds another marble
C17_Witness ==
    /\ call.op = "update_game_board"
    /\ Marbles(board) = 2

\* the directions of a line: along a row, along a column, and the two
\* diagonals
Directions == {<<0, 1>>, <<1, 0>>, <<1, 1>>, <<1, -1>>}

\* five cells in a line, all inside the grid, all of the colour
has_line(b, color) ==
    \E row \in 0..5 : \E column \in 0..5 : \E d \in Directions :
        \A i \in 0..4 :
            /\ row + i * d[1] \in 0..5
            /\ column + i * d[2] \in 0..5
            /\ b[row + i * d[1]][column + i * d[2]] = color

\* C18: check_end_conditions returns true for a colour exactly when five
\* consecutive cells of one row, one column or one diagonal of the 6x6
\* grid all hold that colour; cells that are not contiguous never count.
C18_LineIffFiveContiguous ==
    [][call'.op = "check_end_conditions"
       => ((result' = "True") <=> has_line(board, call'.args[1]))]_vars

\* the exceptions a call can end with
Exceptions == {"KeyError", "ValueError", "IndexError", "UnboundLocalError"}

\* C19: a make_move call whose position is outside a0..f5 returns a result
\* that reports the failure (it does not raise, it does not return True)
\* and changes no state of the game.
C19_BadPositionRejected ==
    [][(call'.op = "make_move" /\ ~on_board(call'))
       => (/\ result' \notin Exceptions
           /\ result' # "True"
           /\ UNCHANGED <<board, current_player, opponent, game_state,
                          game_log>>)]_vars

\* C20: a make_move call with a position on the board but a quadrant
\* outside 1..4 or a direction other than 'C' and 'A' does not return True,
\* does not raise, and places no marble.
C20_BadQuadrantOrDirectionRejected ==
    [][(/\ on_board(call')
        /\ \/ sub_board_of(call') \notin 1..4
           \/ rotation_of(call') \notin {"C", "A"})
       => (/\ result' # "True"
           /\ result' \notin Exceptions
           /\ board' = board)]_vars

\* the log after the step is the log before it with one entry added at
\* the end
one_appended ==
    /\ Len(game_log') = Len(game_log) + 1
    /\ SubSeq(game_log', 1, Len(game_log)) = game_log

\* C21: a log_move or log_game_state call, and a make_move call that is
\* accepted and ends with no five in a row and a board that is not full,
\* appends exactly one entry at the end of the log and keeps the earlier
\* entries in their order; a rejected make_move leaves the log as it was.
C21_LogAppendOnly ==
    [][/\ call'.op \in {"log_move", "log_game_state"} => one_appended
       /\ (/\ valid_move(call')
           /\ result' = "True"
           /\ no_line(board') /\ ~is_full(board')) => one_appended
       /\ (call'.op = "make_move" /\ result' # "True")
              => game_log' = game_log]_vars

\* the cell lies in the 3x3 window of quadrant n: the windows of 1, 2, 3, 4
\* are anchored at (0,0), (0,3), (3,0), (3,3)
in_window(n, row, column) ==
    /\ row \div 3 = (n - 1) \div 2
    /\ column \div 3 = (n - 1) % 2

\* C22: rotate_sub_board(id, direction) with id in 1..4 leaves the 27
\* cells outside the window of id unchanged, and its trailing
\* update_board_from_sub_boards changes no cell of the board that
\* SubBoard.rotate has written.
C22_RotationFrame ==
    [][(/\ call'.op = "rotate_sub_board"
        /\ call'.args[1] \in 1..4
        /\ call'.args[2] \in {"C", "A"})
       => LET rotated == rotate(board, call'.args[1], call'.args[2])
          IN  /\ \A row \in 0..5 : \A column \in 0..5 :
                    ~in_window(call'.args[1], row, column)
                        => board'[row][column] = board[row][column]
              /\ update_board_from_sub_boards(rotated) = rotated
              /\ board' = rotated]_vars

\* a rotation has moved a marble of its window while another marble lies
\* outside the window
C22_Witness ==
    /\ call.op = "rotate_sub_board"
    /\ result = "None"
    /\ rotate(board, call.args[1], "C") # board
    /\ \E row \in 0..5 : \E column \in 0..5 :
          /\ ~in_window(call.args[1], row, column)
          /\ board[row][column] # "."

\* C23: a make_move call that is rejected because it is not the mover's
\* turn or because the cell is occupied leaves the current player, the
\* opponent, the game state, the board and the log as they were.
C23_RejectedMoveChangesNothing ==
    [][(/\ call'.op = "make_move"
        /\ result' \in {"not this player's turn", "position is not empty"})
       => UNCHANGED <<current_player, opponent, game_state, board,
                      game_log>>]_vars

=============================================================================
